---- MODULE Spec2Model ----
(***************************************************************************)
(* Model of the CUNY Resolution Reviewer (src/app.py and                   *)
(* src/resolution_reviewer.py).                                            *)
(*                                                                         *)
(* app.py is a Streamlit script: main() is run from top to bottom once     *)
(* per user event (page load, a change of the file uploader, a click on    *)
(* the Analyze button).  The uploader widget keeps its file between runs;  *)
(* st.button returns True only in the run its click started.  The model    *)
(* follows one run of main() step by step (pc), per browser session, with  *)
(* the file temp_resolution.docx and the process environment shared.       *)
(*                                                                         *)
(* Strings are sequences of symbols: a symbol is one character of a        *)
(* document or one fixed piece of a prompt literal.                        *)
(***************************************************************************)
EXTENDS Naturals, Sequences, FiniteSets, TLC

\* ---------------------------------------------------------------- bounds
\* Most paragraphs of an uploaded document.
MaxParagraphs == 2
\* Most violations in one list of a model response.
MaxViolations == 1

\* ------------------------------------------------------------- documents
SessionIds == {1, 2}

\* The special-token text tiktoken's encode() refuses by default.
SpecialToken == "<|endoftext|>"
ExampleEnd == "<EXAMPLE END>"
Newline == "\n"

\* The paragraph texts documents are made of.
ParagraphTexts == {<<>>, <<"a">>, <<SpecialToken>>, <<ExampleEnd>>}

SeqsUpTo(S, n) == UNION {[1..k -> S] : k \in 0..n}

NoFile == [kind |-> "none", paras |-> <<>>]
CorruptFile == [kind |-> "corrupt", paras |-> <<>>]
\* The byte contents a user can upload: a .docx package with paragraphs, or
\* bytes that are no .docx package at all.
Docs == {[kind |-> "docx", paras |-> p] : p \in SeqsUpTo(ParagraphTexts, MaxParagraphs)}
          \cup {CorruptFile}

\* ---------------------------------------------------- resolution_reviewer
RECURSIVE Join(_, _)
\* sep.join(parts)
Join(parts, sep) ==
  IF Len(parts) = 0 THEN <<>>
  ELSE IF Len(parts) = 1 THEN parts[1]
  ELSE parts[1] \o <<sep>> \o Join(Tail(parts), sep)

\* Document(file_path) raises for a missing file and for bytes that are no
\* .docx package (docx.opc.exceptions.PackageNotFoundError).
ReadDocumentRaises(file) == file.kind # "docx"
\* read_document: "\n".join(paragraph.text for paragraph in doc.paragraphs)
ReadDocument(file) == Join(file.paras, Newline)

GetSystemPrompt ==
  << "You are an expert reviewer of CUNY Board of Trustees resolutions.",
     "TEMPLATE STRUCTURE:", "FORMATTING RULES:",
     "Provide your analysis in the following JSON format:" >>

ExOriginal == <<"ex_original">>
ExModified == <<"ex_modified">>
ExChanges == <<"changes">>
GetExamples == <<ExOriginal, ExModified, ExChanges>>

\* A prompt builder that puts the document text in front of the example block.
BuildUserPromptTextFirst(ex_original, ex_modified, changes, resolution_text) ==
  resolution_text
    \o << "Your task is to analyze a draft resolution for compliance with the template and rules.",
          "<EXAMPLE START>", "ORIGINAL VERSION:-" >>
    \o ex_original \o << "----------------", "MODIFIED VERSION:-" >>
    \o ex_modified \o << "----------------", "ORIGINAL VERSION:-" >>
    \o changes \o << "----------------", ExampleEnd,
          "Based on the template provided, please analyze the following resolution:" >>
    \o << "Provide a detailed analysis identifying any violations of the template or rules." >>

\* _build_user_prompt: the f-string, piece by piece.
BuildUserPrompt(ex_original, ex_modified, changes, resolution_text) ==
  << "Your task is to analyze a draft resolution for compliance with the template and rules.",
     "<EXAMPLE START>", "ORIGINAL VERSION:-" >>
    \o ex_original \o << "----------------", "MODIFIED VERSION:-" >>
    \o ex_modified \o << "----------------", "ORIGINAL VERSION:-" >>
    \o changes \o << "----------------", ExampleEnd,
          "Based on the template provided, please analyze the following resolution:" >>
    \o resolution_text
    \o << "Provide a detailed analysis identifying any violations of the template or rules." >>

\* count_tokens: encoding.encode(text) is called with tiktoken's defaults
\* (disallowed_special="all"), so it raises ValueError when the text holds
\* the text of a special token.
CountTokensRaises(text) == \E i \in 1..Len(text) : text[i] = SpecialToken
\* count_tokens: len(encoding.encode(text)); one token per symbol.
CountTokens(text) == Len(text)

ModelName == "gpt-4.1-mini-2025-04-14"
JsonObjectFormat == "json_object"
NoRequest == [issued |-> FALSE, model |-> "", system |-> <<>>, user |-> <<>>, format |-> ""]
\* The arguments of client.chat.completions.create.
ChatRequest(system_prompt, user_prompt) ==
  [issued |-> TRUE, model |-> ModelName, system |-> system_prompt,
   user |-> user_prompt, format |-> JsonObjectFormat]

\* ------------------------------------------------------- model responses
ResultKeys == {"template_violations", "formatting_violations", "overall_assessment"}
ViolationFields == {"rule", "location", "description", "suggestion"}
\* A violation object of the response: the fields it has.
Violations == {[fields |-> ViolationFields], [fields |-> ViolationFields \ {"location"}]}
ViolationLists == SeqsUpTo(Violations, MaxViolations)

\* The JSON objects the endpoint may answer with: any of the three top-level
\* keys may be missing.
JsonObjects ==
  {[keys |-> K,
    template_violations |-> tv,
    formatting_violations |-> fv,
    overall_assessment |-> IF "overall_assessment" \in K THEN "assessment" ELSE ""] :
     K \in SUBSET ResultKeys,
     tv \in ViolationLists,
     fv \in ViolationLists}
WellFormed(o) ==
  /\ ("template_violations" \notin o.keys => o.template_violations = <<>>)
  /\ ("formatting_violations" \notin o.keys => o.formatting_violations = <<>>)
NoObject == [keys |-> {}, template_violations |-> <<>>, formatting_violations |-> <<>>,
             overall_assessment |-> ""]
NoContent == [json |-> FALSE, obj |-> NoObject, set |-> FALSE]
\* response.choices[0].message.content: the text of a JSON object, or text
\* that is no JSON.
Contents ==
  {[json |-> TRUE, obj |-> o, set |-> TRUE] : o \in {x \in JsonObjects : WellFormed(x)}}
    \cup {[json |-> FALSE, obj |-> NoObject, set |-> TRUE]}
\* json.loads(content) raises json.JSONDecodeError
JsonLoadsRaises(content) == ~content.json
JsonLoads(content) == content.obj

\* ------------------------------------------------------------------- UI
El(kind, text) == [kind |-> kind, text |-> text]

\* One rendering step of the result block: the element it draws, and whether
\* the subscript it evaluates first finds its key.
Step(ok, kind, text) == [ok |-> ok, el |-> El(kind, text)]

\* Lines 38-41 (and 48-51): one violation's panel.
PanelSteps(v) ==
  << Step("location" \in v.fields, "expander", "Violation at"),
     Step("rule" \in v.fields, "markdown", "Rule"),
     Step("description" \in v.fields, "markdown", "Issue"),
     Step("suggestion" \in v.fields, "markdown", "Suggestion") >>

RECURSIVE PanelsSteps(_)
PanelsSteps(vs) ==
  IF Len(vs) = 0 THEN <<>> ELSE PanelSteps(Head(vs)) \o PanelsSteps(Tail(vs))

\* Lines 35-43 (and 45-53): one column.
ColumnSteps(results, key, list, title, none) ==
  << Step(TRUE, "subheader", title) >>
    \o IF key \notin results.keys THEN << Step(FALSE, "keyerror", key) >>
       ELSE IF Len(list) > 0 THEN PanelsSteps(list)
       ELSE << Step(TRUE, "success", none) >>

\* Lines 32-55 in the order they run.
RenderSteps(results) ==
  << Step(TRUE, "header", "Review Results") >>
    \o ColumnSteps(results, "template_violations", results.template_violations,
                   "Template Violations", "No template violations found.")
    \o ColumnSteps(results, "formatting_violations", results.formatting_violations,
                   "Formatting Violations", "No formatting violations found.")
    \o << Step(TRUE, "subheader", "Overall Assessment"),
          Step("overall_assessment" \in results.keys, "info", "overall_assessment") >>

\* The first step whose subscript raises KeyError (0: none does).
FirstFailure(steps) ==
  IF \E i \in 1..Len(steps) : ~steps[i].ok
  THEN CHOOSE i \in 1..Len(steps) : ~steps[i].ok /\ \A j \in 1..(i - 1) : steps[j].ok
  ELSE 0
RenderRaises(results) == FirstFailure(RenderSteps(results)) # 0
\* What lines 32-55 draw before they finish or raise.
Rendered(results) ==
  LET steps == RenderSteps(results)
      f == FirstFailure(steps)
      n == IF f = 0 THEN Len(steps) ELSE f - 1
  IN [i \in 1..n |-> steps[i].el]

Has(ui_, kind, text) == \E i \in 1..Len(ui_) : ui_[i] = El(kind, text)
HasKind(ui_, kind) == \E i \in 1..Len(ui_) : ui_[i].kind = kind

\* ---------------------------------------------------------------- state
VARIABLES
  sessions,       \* the browser sessions of this behaviour
  envKey,         \* OPENAI_API_KEY in the process environment
  tempFile,       \* the file at temp_resolution.docx
  uploader,       \* per session: the file held by the st.file_uploader widget
  pc,             \* per session: where its run of main() stands
  button,         \* per session: what st.button returns in this run
  ui,             \* per session: the elements drawn by the latest run
  fileSource,     \* main()'s file_source
  systemPrompt,   \* reviewer.system_prompt (empty: no reviewer constructed)
  resolutionText, \* review_resolution's resolution_text
  userPrompt,     \* review_resolution's user_prompt
  totalTokens,    \* review_resolution's total_tokens
  response,       \* response.choices[0].message.content
  results,        \* analyze_and_display_results' results
  exc,            \* the exception on its way to the except clause
  wroteTemp,      \* history: this run wrote temp_resolution.docx
  reqCount,       \* history: requests sent by this run's review_resolution
  lastRequest,    \* history: the latest request of this run
  raisedBy,       \* history: the call that raised in this run's review
  caught,         \* history: the exception class the except clause handled
  outcome,        \* history: how this run's review ended
  previewErr,     \* history: the exception class caught by the preview
  previewText,    \* history: the text shown by the preview
  freshUpload     \* history: a file was uploaded since the last review ended

vars == << sessions, envKey, tempFile, uploader, pc, button, ui, fileSource,
           systemPrompt, resolutionText, userPrompt, totalTokens, response,
           results, exc, wroteTemp, reqCount, lastRequest, raisedBy, caught,
           outcome, previewErr, previewText, freshUpload >>

reviewLocals == << resolutionText, userPrompt, totalTokens, response, results >>
reviewHistory == << reqCount, lastRequest, raisedBy, caught, outcome >>
previewHistory == << previewErr, previewText >>

EnvKeys == {"unset", "empty", "set"}

InitCommon ==
  /\ envKey \in EnvKeys
  /\ tempFile = NoFile
  /\ uploader = [s \in SessionIds |-> NoFile]
  /\ pc = [s \in SessionIds |-> "idle"]
  /\ button = [s \in SessionIds |-> FALSE]
  /\ ui = [s \in SessionIds |-> <<>>]
  /\ fileSource = [s \in SessionIds |-> "none"]
  /\ systemPrompt = [s \in SessionIds |-> <<>>]
  /\ resolutionText = [s \in SessionIds |-> <<>>]
  /\ userPrompt = [s \in SessionIds |-> <<>>]
  /\ totalTokens = [s \in SessionIds |-> 0]
  /\ response = [s \in SessionIds |-> NoContent]
  /\ results = [s \in SessionIds |-> NoObject]
  /\ exc = [s \in SessionIds |-> ""]
  /\ wroteTemp = [s \in SessionIds |-> FALSE]
  /\ reqCount = [s \in SessionIds |-> 0]
  /\ lastRequest = [s \in SessionIds |-> NoRequest]
  /\ raisedBy = [s \in SessionIds |-> ""]
  /\ caught = [s \in SessionIds |-> ""]
  /\ outcome = [s \in SessionIds |-> "none"]
  /\ previewErr = [s \in SessionIds |-> ""]
  /\ previewText = [s \in SessionIds |-> <<>>]
  /\ freshUpload = [s \in SessionIds |-> FALSE]

\* The deployment the specification assumes: one user, one session.
Init == sessions = {1} /\ InitCommon

\* ----------------------------------------------------------- user events
\* Streamlit starts a run of main() in session s; st.button returns b in it.
StartRun(s, b) ==
  /\ pc' = [pc EXCEPT ![s] = "main"]
  /\ button' = [button EXCEPT ![s] = b]
  /\ ui' = [ui EXCEPT ![s] = <<>>]
  /\ fileSource' = [fileSource EXCEPT ![s] = "none"]
  /\ systemPrompt' = [systemPrompt EXCEPT ![s] = <<>>]
  /\ resolutionText' = [resolutionText EXCEPT ![s] = <<>>]
  /\ userPrompt' = [userPrompt EXCEPT ![s] = <<>>]
  /\ totalTokens' = [totalTokens EXCEPT ![s] = 0]
  /\ response' = [response EXCEPT ![s] = NoContent]
  /\ results' = [results EXCEPT ![s] = NoObject]
  /\ exc' = [exc EXCEPT ![s] = ""]
  /\ wroteTemp' = [wroteTemp EXCEPT ![s] = FALSE]
  /\ reqCount' = [reqCount EXCEPT ![s] = 0]
  /\ lastRequest' = [lastRequest EXCEPT ![s] = NoRequest]
  /\ raisedBy' = [raisedBy EXCEPT ![s] = ""]
  /\ caught' = [caught EXCEPT ![s] = ""]
  /\ outcome' = [outcome EXCEPT ![s] = "none"]
  /\ previewErr' = [previewErr EXCEPT ![s] = ""]
  /\ previewText' = [previewText EXCEPT ![s] = <<>>]
  /\ UNCHANGED << sessions, envKey, tempFile >>

\* The user opens (or reloads) the page: a session with an empty uploader.
OpenPage(s) ==
  /\ pc[s] = "idle"
  /\ uploader' = [uploader EXCEPT ![s] = NoFile]
  /\ UNCHANGED freshUpload
  /\ StartRun(s, FALSE)

\* The user puts file d into the uploader the last run drew.
UploadFile(s, d) ==
  /\ pc[s] = "idle"
  /\ HasKind(ui[s], "file_uploader")
  /\ uploader' = [uploader EXCEPT ![s] = d]
  /\ freshUpload' = [freshUpload EXCEPT ![s] = TRUE]
  /\ StartRun(s, FALSE)

\* The user takes the file out of the uploader.
RemoveFile(s) ==
  /\ pc[s] = "idle"
  /\ HasKind(ui[s], "file_uploader")
  /\ uploader[s] # NoFile
  /\ uploader' = [uploader EXCEPT ![s] = NoFile]
  /\ UNCHANGED freshUpload
  /\ StartRun(s, FALSE)

\* The user clicks the Analyze button the last run drew.
ClickAnalyze(s) ==
  /\ pc[s] = "idle"
  /\ HasKind(ui[s], "button")
  /\ UNCHANGED << uploader, freshUpload >>
  /\ StartRun(s, TRUE)

\* ------------------------------------------------------------- app.main
Draw(s, els) == ui' = [ui EXCEPT ![s] = ui[s] \o els]
Goto(s, l) == pc' = [pc EXCEPT ![s] = l]

\* A key check that only notices an unset variable.
KeyMissingUnsetOnly(k) == k = "unset"
\* not OPENAI_API_KEY: os.getenv gave None or the empty string.
KeyMissing(k) == k \in {"unset", "empty"}

\* main, lines 63-75: the title, then the credential check and st.stop().
MainCheckKey(s) ==
  /\ pc[s] = "main"
  /\ IF KeyMissing(envKey)
     THEN /\ Draw(s, << El("title", "CUNY Resolution Reviewer"),
                        El("error", "Please set the OPENAI_API_KEY environment variable.") >>)
          /\ Goto(s, "idle")
     ELSE /\ Draw(s, << El("title", "CUNY Resolution Reviewer") >>)
          /\ Goto(s, "select")
  /\ UNCHANGED << sessions, envKey, tempFile, uploader, button, fileSource, systemPrompt,
                  reviewLocals, exc, wroteTemp, reviewHistory, previewHistory, freshUpload >>

\* An upload step that writes no bytes: the file is created empty (what
\* writing uploaded_file.read() gives once the stream has been read).
SelectOrUploadFileEmptyWrite(s) ==
  /\ pc[s] = "select"
  /\ Draw(s, << El("subheader", "Upload a Resolution Document"),
                El("file_uploader", "Upload a .docx file:") >>)
  /\ IF uploader[s] # NoFile
     THEN /\ tempFile' = CorruptFile
          /\ fileSource' = [fileSource EXCEPT ![s] = "uploaded"]
          /\ wroteTemp' = [wroteTemp EXCEPT ![s] = TRUE]
     ELSE UNCHANGED << tempFile, fileSource, wroteTemp >>
  /\ Goto(s, "branch")
  /\ UNCHANGED << sessions, envKey, uploader, button, systemPrompt, reviewLocals, exc,
                  reviewHistory, previewHistory, freshUpload >>

\* An upload step that leaves a file already at the path as it is.
SelectOrUploadFileKeepExisting(s) ==
  /\ pc[s] = "select"
  /\ Draw(s, << El("subheader", "Upload a Resolution Document"),
                El("file_uploader", "Upload a .docx file:") >>)
  /\ IF uploader[s] # NoFile
     THEN /\ tempFile' = IF tempFile = NoFile THEN uploader[s] ELSE tempFile
          /\ fileSource' = [fileSource EXCEPT ![s] = "uploaded"]
          /\ wroteTemp' = [wroteTemp EXCEPT ![s] = (tempFile = NoFile)]
     ELSE UNCHANGED << tempFile, fileSource, wroteTemp >>
  /\ Goto(s, "branch")
  /\ UNCHANGED << sessions, envKey, uploader, button, systemPrompt, reviewLocals, exc,
                  reviewHistory, previewHistory, freshUpload >>

\* select_or_upload_file, lines 5-17.
SelectOrUploadFile(s) ==
  /\ pc[s] = "select"
  /\ Draw(s, << El("subheader", "Upload a Resolution Document"),
                El("file_uploader", "Upload a .docx file:") >>)
  /\ IF uploader[s] # NoFile
     THEN /\ tempFile' = uploader[s]
          /\ fileSource' = [fileSource EXCEPT ![s] = "uploaded"]
          /\ wroteTemp' = [wroteTemp EXCEPT ![s] = TRUE]
     ELSE UNCHANGED << tempFile, fileSource, wroteTemp >>
  /\ Goto(s, "branch")
  /\ UNCHANGED << sessions, envKey, uploader, button, systemPrompt, reviewLocals, exc,
                  reviewHistory, previewHistory, freshUpload >>

\* main, lines 78-79: ResolutionReviewer(OPENAI_API_KEY).
ConstructReviewer(s) ==
  /\ pc[s] = "branch"
  /\ fileSource[s] = "uploaded"
  /\ systemPrompt' = [systemPrompt EXCEPT ![s] = GetSystemPrompt]
  /\ Goto(s, "preview")
  /\ UNCHANGED << sessions, envKey, tempFile, uploader, button, ui, fileSource,
                  reviewLocals, exc, wroteTemp, reviewHistory, previewHistory, freshUpload >>

\* main, lines 82-83: nothing to review.
MainNoFile(s) ==
  /\ pc[s] = "branch"
  /\ fileSource[s] # "uploaded"
  /\ Draw(s, << El("info", "Please upload a .docx file to begin.") >>)
  /\ Goto(s, "idle")
  /\ UNCHANGED << sessions, envKey, tempFile, uploader, button, fileSource, systemPrompt,
                  reviewLocals, exc, wroteTemp, reviewHistory, previewHistory, freshUpload >>

\* A preview without its try/except: the exception ends the run.
ShowDocumentPreviewUncaught(s) ==
  /\ pc[s] = "preview"
  /\ IF ReadDocumentRaises(tempFile)
     THEN /\ Draw(s, << El("expander", "Preview Extracted Text from Document") >>)
          /\ previewErr' = [previewErr EXCEPT ![s] = "PackageNotFoundError"]
          /\ UNCHANGED previewText
          /\ Goto(s, "idle")
     ELSE /\ Draw(s, << El("expander", "Preview Extracted Text from Document"),
                        El("text_area", "Extracted Text") >>)
          /\ previewText' = [previewText EXCEPT ![s] = ReadDocument(tempFile)]
          /\ UNCHANGED previewErr
          /\ Goto(s, "button")
  /\ UNCHANGED << sessions, envKey, tempFile, uploader, button, fileSource, systemPrompt,
                  reviewLocals, exc, wroteTemp, reviewHistory, freshUpload >>

\* show_document_preview, lines 19-25.
ShowDocumentPreview(s) ==
  /\ pc[s] = "preview"
  /\ IF ReadDocumentRaises(tempFile)
     THEN /\ Draw(s, << El("expander", "Preview Extracted Text from Document"),
                        El("error", "Could not extract text") >>)
          /\ previewErr' = [previewErr EXCEPT ![s] = "PackageNotFoundError"]
          /\ UNCHANGED previewText
     ELSE /\ Draw(s, << El("expander", "Preview Extracted Text from Document"),
                        El("text_area", "Extracted Text") >>)
          /\ previewText' = [previewText EXCEPT ![s] = ReadDocument(tempFile)]
          /\ UNCHANGED previewErr
  /\ Goto(s, "button")
  /\ UNCHANGED << sessions, envKey, tempFile, uploader, button, fileSource, systemPrompt,
                  reviewLocals, exc, wroteTemp, reviewHistory, freshUpload >>

\* analyze_and_display_results, line 28: the button is drawn; the body runs
\* only in the run its click started.
AnalyzeButton(s) ==
  /\ pc[s] = "button"
  /\ Draw(s, << El("button", "Analyze Resolution") >>)
  /\ Goto(s, IF button[s] THEN "read" ELSE "idle")
  /\ UNCHANGED << sessions, envKey, tempFile, uploader, button, fileSource, systemPrompt,
                  reviewLocals, exc, wroteTemp, reviewHistory, previewHistory, freshUpload >>

Raise(s, class, by) ==
  /\ exc' = [exc EXCEPT ![s] = class]
  /\ raisedBy' = [raisedBy EXCEPT ![s] = by]
  /\ Goto(s, "except")

\* A review that goes on with an empty text when the extraction raises.
ReviewReadDocumentLenient(s) ==
  /\ pc[s] = "read"
  /\ IF ReadDocumentRaises(tempFile)
     THEN /\ raisedBy' = [raisedBy EXCEPT ![s] = "read_document"]
          /\ resolutionText' = [resolutionText EXCEPT ![s] = <<>>]
          /\ UNCHANGED exc
     ELSE /\ resolutionText' = [resolutionText EXCEPT ![s] = ReadDocument(tempFile)]
          /\ UNCHANGED << exc, raisedBy >>
  /\ Goto(s, "prompt")
  /\ UNCHANGED << sessions, envKey, tempFile, uploader, button, ui, fileSource,
                  systemPrompt, userPrompt, totalTokens, response, results, wroteTemp,
                  reqCount, lastRequest, caught, outcome, previewHistory, freshUpload >>

\* review_resolution, line 101.
ReviewReadDocument(s) ==
  /\ pc[s] = "read"
  /\ IF ReadDocumentRaises(tempFile)
     THEN /\ Raise(s, "PackageNotFoundError", "read_document")
          /\ UNCHANGED resolutionText
     ELSE /\ resolutionText' = [resolutionText EXCEPT ![s] = ReadDocument(tempFile)]
          /\ Goto(s, "prompt")
          /\ UNCHANGED << exc, raisedBy >>
  /\ UNCHANGED << sessions, envKey, tempFile, uploader, button, ui, fileSource,
                  systemPrompt, userPrompt, totalTokens, response, results, wroteTemp,
                  reqCount, lastRequest, caught, outcome, previewHistory, freshUpload >>

\* review_resolution, lines 102-103.
ReviewBuildPrompt(s) ==
  /\ pc[s] = "prompt"
  /\ userPrompt' = [userPrompt EXCEPT ![s] =
       BuildUserPrompt(GetExamples[1], GetExamples[2], GetExamples[3], resolutionText[s])]
  /\ Goto(s, "count")
  /\ UNCHANGED << sessions, envKey, tempFile, uploader, button, ui, fileSource,
                  systemPrompt, resolutionText, totalTokens, response, results, exc,
                  wroteTemp, reviewHistory, previewHistory, freshUpload >>

\* review_resolution, lines 104-106.
ReviewCountTokens(s) ==
  /\ pc[s] = "count"
  /\ IF CountTokensRaises(systemPrompt[s]) \/ CountTokensRaises(userPrompt[s])
     THEN /\ Raise(s, "ValueError", "count_tokens")
          /\ UNCHANGED totalTokens
     ELSE /\ totalTokens' = [totalTokens EXCEPT ![s] =
               CountTokens(systemPrompt[s]) + CountTokens(userPrompt[s])]
          /\ Goto(s, "request")
          /\ UNCHANGED << exc, raisedBy >>
  /\ UNCHANGED << sessions, envKey, tempFile, uploader, button, ui, fileSource,
                  systemPrompt, resolutionText, userPrompt, response, results, wroteTemp,
                  reqCount, lastRequest, caught, outcome, previewHistory, freshUpload >>

\* review_resolution, lines 107-114: the one blocking request.  The endpoint
\* answers with some content, or the call raises.
ReviewCallModelAnswering(s, answers) ==
  /\ pc[s] = "request"
  /\ reqCount' = [reqCount EXCEPT ![s] = reqCount[s] + 1]
  /\ lastRequest' = [lastRequest EXCEPT ![s] = ChatRequest(systemPrompt[s], userPrompt[s])]
  /\ \/ /\ exc' = [exc EXCEPT ![s] = "APIError"]
        /\ raisedBy' = [raisedBy EXCEPT ![s] = "create"]
        /\ Goto(s, "except")
        /\ UNCHANGED response
     \/ /\ \E c \in answers : response' = [response EXCEPT ![s] = c]
        /\ Goto(s, "parse")
        /\ UNCHANGED << exc, raisedBy >>
  /\ UNCHANGED << sessions, envKey, tempFile, uploader, button, ui, fileSource,
                  systemPrompt, resolutionText, userPrompt, totalTokens, results,
                  wroteTemp, caught, outcome, previewHistory, freshUpload >>

\* The request against an endpoint that may answer with any content.
ReviewCallModel(s) == ReviewCallModelAnswering(s, Contents)

\* review_resolution, lines 115-116: json.loads of the content.
ReviewParse(s) ==
  /\ pc[s] = "parse"
  /\ IF JsonLoadsRaises(response[s])
     THEN /\ Raise(s, "JSONDecodeError", "json.loads")
          /\ UNCHANGED results
     ELSE /\ results' = [results EXCEPT ![s] = JsonLoads(response[s])]
          /\ Goto(s, "render")
          /\ UNCHANGED << exc, raisedBy >>
  /\ UNCHANGED << sessions, envKey, tempFile, uploader, button, ui, fileSource,
                  systemPrompt, resolutionText, userPrompt, totalTokens, response,
                  wroteTemp, reqCount, lastRequest, caught, outcome, previewHistory,
                  freshUpload >>

\* A rendering that passes over a missing key and counts what it drew as
\* the displayed result.
RenderResultsPassingMissingKeys(s) ==
  /\ pc[s] = "render"
  /\ Draw(s, Rendered(results[s]))
  /\ outcome' = [outcome EXCEPT ![s] = "displayed"]
  /\ Goto(s, "finally")
  /\ UNCHANGED << sessions, envKey, tempFile, uploader, button, fileSource, systemPrompt,
                  reviewLocals, exc, raisedBy, wroteTemp, reqCount, lastRequest, caught,
                  previewHistory, freshUpload >>

\* analyze_and_display_results, lines 32-55.
RenderResults(s) ==
  /\ pc[s] = "render"
  /\ Draw(s, Rendered(results[s]))
  /\ IF RenderRaises(results[s])
     THEN /\ exc' = [exc EXCEPT ![s] = "KeyError"]
          /\ raisedBy' = [raisedBy EXCEPT ![s] = "render"]
          /\ Goto(s, "except")
          /\ UNCHANGED outcome
     ELSE /\ outcome' = [outcome EXCEPT ![s] = "displayed"]
          /\ Goto(s, "finally")
          /\ UNCHANGED << exc, raisedBy >>
  /\ UNCHANGED << sessions, envKey, tempFile, uploader, button, fileSource, systemPrompt,
                  reviewLocals, wroteTemp, reqCount, lastRequest, caught, previewHistory,
                  freshUpload >>

\* An except clause that handles KeyError only: anything else leaves the
\* action uncaught, after the finally clause.
ExceptKeyErrorOnly(s) ==
  /\ pc[s] = "except"
  /\ IF exc[s] = "KeyError"
     THEN /\ Draw(s, << El("error", "An error occurred") >>)
          /\ caught' = [caught EXCEPT ![s] = exc[s]]
          /\ exc' = [exc EXCEPT ![s] = ""]
          /\ outcome' = [outcome EXCEPT ![s] = "failed"]
     ELSE /\ outcome' = [outcome EXCEPT ![s] = "crashed"]
          /\ UNCHANGED << ui, caught, exc >>
  /\ Goto(s, "finally")
  /\ UNCHANGED << sessions, envKey, tempFile, uploader, button, fileSource, systemPrompt,
                  reviewLocals, wroteTemp, reqCount, lastRequest, raisedBy,
                  previewHistory, freshUpload >>

\* analyze_and_display_results, lines 56-57: except Exception.
Except(s) ==
  /\ pc[s] = "except"
  /\ Draw(s, << El("error", "An error occurred") >>)
  /\ caught' = [caught EXCEPT ![s] = exc[s]]
  /\ exc' = [exc EXCEPT ![s] = ""]
  /\ outcome' = [outcome EXCEPT ![s] = "failed"]
  /\ Goto(s, "finally")
  /\ UNCHANGED << sessions, envKey, tempFile, uploader, button, fileSource, systemPrompt,
                  reviewLocals, wroteTemp, reqCount, lastRequest, raisedBy,
                  previewHistory, freshUpload >>

\* A cleanup that runs only after a review that succeeded.
FinallyOnSuccessOnly(s) ==
  /\ pc[s] = "finally"
  /\ IF outcome[s] = "displayed" /\ fileSource[s] = "uploaded" /\ tempFile # NoFile
     THEN tempFile' = NoFile
     ELSE UNCHANGED tempFile
  /\ freshUpload' = [freshUpload EXCEPT ![s] = FALSE]
  /\ Goto(s, "idle")
  /\ UNCHANGED << sessions, envKey, uploader, button, ui, fileSource, systemPrompt,
                  reviewLocals, exc, wroteTemp, reviewHistory, previewHistory >>

\* analyze_and_display_results, lines 58-60: the finally clause.
Finally(s) ==
  /\ pc[s] = "finally"
  /\ IF fileSource[s] = "uploaded" /\ tempFile # NoFile
     THEN tempFile' = NoFile
     ELSE UNCHANGED tempFile
  /\ freshUpload' = [freshUpload EXCEPT ![s] = FALSE]
  /\ Goto(s, "idle")
  /\ UNCHANGED << sessions, envKey, uploader, button, ui, fileSource, systemPrompt,
                  reviewLocals, exc, wroteTemp, reviewHistory, previewHistory >>

Next ==
  \/ \E s \in sessions : OpenPage(s)
  \/ \E s \in sessions : \E d \in Docs : UploadFile(s, d)
  \/ \E s \in sessions : RemoveFile(s)
  \/ \E s \in sessions : ClickAnalyze(s)
  \/ \E s \in sessions : MainCheckKey(s)
  \/ \E s \in sessions : SelectOrUploadFile(s)
  \/ \E s \in sessions : ConstructReviewer(s)
  \/ \E s \in sessions : MainNoFile(s)
  \/ \E s \in sessions : ShowDocumentPreview(s)
  \/ \E s \in sessions : AnalyzeButton(s)
  \/ \E s \in sessions : ReviewReadDocument(s)
  \/ \E s \in sessions : ReviewBuildPrompt(s)
  \/ \E s \in sessions : ReviewCountTokens(s)
  \/ \E s \in sessions : ReviewCallModel(s)
  \/ \E s \in sessions : ReviewParse(s)
  \/ \E s \in sessions : RenderResults(s)
  \/ \E s \in sessions : Except(s)
  \/ \E s \in sessions : Finally(s)

Spec == Init /\ [][Next]_vars

\* Two users at once: the deployment section 5 of the specification rules
\* out.  Each session's script runs in a thread of its own, and the steps of
\* two runs interleave; the file at temp_resolution.docx is the one thing
\* they share.  Every file access of the model is one step (a reader never
\* sees a half-written file).
InitConcurrent == sessions \in {{1}, {1, 2}} /\ InitCommon

DocA == [kind |-> "docx", paras |-> << <<"a">> >>]
DocB == [kind |-> "docx", paras |-> << <<"a">>, <<"a">> >>]
\* The documents the users of the concurrent deployment upload.
ConcurrentDocs == {DocA, DocB}
\* The answers of the endpoint in the concurrent deployment: a complete
\* result without violations, or text that is no JSON.
ConcurrentContents ==
  {c \in Contents : ~c.json \/ (c.obj.keys = ResultKeys /\ c.obj.template_violations = <<>>
                                  /\ c.obj.formatting_violations = <<>>)}

NextConcurrent ==
  \/ \E s \in sessions : OpenPage(s)
  \/ \E s \in sessions : \E d \in ConcurrentDocs : UploadFile(s, d)
  \/ \E s \in sessions : RemoveFile(s)
  \/ \E s \in sessions : ClickAnalyze(s)
  \/ \E s \in sessions : MainCheckKey(s)
  \/ \E s \in sessions : SelectOrUploadFile(s)
  \/ \E s \in sessions : ConstructReviewer(s)
  \/ \E s \in sessions : MainNoFile(s)
  \/ \E s \in sessions : ShowDocumentPreview(s)
  \/ \E s \in sessions : AnalyzeButton(s)
  \/ \E s \in sessions : ReviewReadDocument(s)
  \/ \E s \in sessions : ReviewBuildPrompt(s)
  \/ \E s \in sessions : ReviewCountTokens(s)
  \/ \E s \in sessions : ReviewCallModelAnswering(s, ConcurrentContents)
  \/ \E s \in sessions : ReviewParse(s)
  \/ \E s \in sessions : RenderResults(s)
  \/ \E s \in sessions : Except(s)
  \/ \E s \in sessions : Finally(s)

SpecConcurrent == InitConcurrent /\ [][NextConcurrent]_vars


\* ------------------------------------------------------------ properties

\* The Analyze action of session s has finished: its finally clause has run.
ActionFinished(s) == pc[s] = "idle" /\ outcome[s] # "none"
\* review_resolution has returned or raised in this run.
ReviewReturned(s) == pc[s] \in {"render", "except", "finally", "idle"} /\ button[s]
\* json.loads has returned an object in this run.
Parsed(s) == ReviewReturned(s) /\ response[s].set /\ response[s].json

\* C1: once Analyze has been triggered, however the review ends (rendering
\* completes, or extraction, the model call, JSON parsing or rendering
\* raises), no file is at temp_resolution.docx when the action finishes.
C1_NoTempFileAfterAnalyze ==
  \A s \in sessions : ActionFinished(s) => tempFile = NoFile

C1_Witness ==
  \E s \in sessions :
    /\ ActionFinished(s)
    /\ wroteTemp[s]
    /\ outcome[s] = "failed"
    /\ raisedBy[s] = "create"
    /\ tempFile = NoFile

\* C2: every run of main() that writes temp_resolution.docx has removed it
\* when the run ends, also a run in which Analyze is not pressed.
C2_TempFileRemovedOnEveryRun ==
  \A s \in sessions : (pc[s] = "idle" /\ wroteTemp[s]) => tempFile = NoFile

\* C3: every error raised during the review action is caught inside the
\* action and shown as an inline error; none leaves the action, and the
\* interaction ends failed.
C3_ReviewErrorsCaughtInline ==
  \A s \in sessions :
    (raisedBy[s] # "" /\ pc[s] \in {"finally", "idle"}) =>
      /\ outcome[s] = "failed"
      /\ exc[s] = ""
      /\ caught[s] \in {"PackageNotFoundError", "ValueError", "APIError",
                        "JSONDecodeError", "KeyError"}
      /\ Has(ui[s], "error", "An error occurred")

C3_Witness ==
  \E s \in sessions :
    /\ pc[s] = "idle"
    /\ raisedBy[s] = "json.loads"
    /\ caught[s] = "JSONDecodeError"
    /\ outcome[s] = "failed"

\* C4: when the parsed response lacks one of the three top-level keys, an
\* inline error is shown and no result section is drawn: no Review Results
\* header, no violation panel, no 'no violations' indicator.
C4_MissingKeyDrawsNoSection ==
  \A s \in sessions :
    (Parsed(s) /\ pc[s] \in {"finally", "idle"} /\ response[s].obj.keys # ResultKeys) =>
      /\ Has(ui[s], "error", "An error occurred")
      /\ ~HasKind(ui[s], "header")
      /\ ~Has(ui[s], "expander", "Violation at")
      /\ ~HasKind(ui[s], "success")

\* The state of the specification's state machine a session is in.
InteractionState(s) ==
  IF pc[s] \in {"read", "prompt", "count", "request", "parse", "render", "except"}
    THEN "Reviewing"
  ELSE IF pc[s] = "finally"
    THEN (IF outcome[s] = "displayed" THEN "Displayed"
          ELSE IF outcome[s] = "failed" THEN "Failed" ELSE "Crashed")
  ELSE IF tempFile # NoFile THEN "Ready"
  ELSE "Idle"

StateMachine ==
  { <<"Idle", "Ready">>, <<"Ready", "Reviewing">>, <<"Reviewing", "Displayed">>,
    <<"Reviewing", "Failed">>, <<"Displayed", "Idle">>, <<"Failed", "Idle">> }

\* One step of session s follows the state machine.
FollowsStateMachine(s) ==
  LET from == InteractionState(s)
      to == InteractionState(s)'
  IN /\ from # to => <<from, to>> \in StateMachine
     /\ (from = "Idle" /\ to = "Ready") => uploader[s] # NoFile /\ tempFile' = uploader[s]
     /\ (from = "Ready" /\ to = "Reviewing") => button[s]
     /\ (from # to /\ to = "Displayed") =>
          /\ reqCount'[s] = 1 /\ response'[s].json /\ exc'[s] = ""
          /\ ~Has(ui'[s], "error", "An error occurred")
          /\ Has(ui'[s], "header", "Review Results")
          /\ Has(ui'[s], "info", "overall_assessment")
     /\ (from # to /\ to = "Failed") =>
          /\ caught'[s] # ""
          /\ Has(ui'[s], "error", "An error occurred")
          /\ ~Has(ui'[s], "info", "overall_assessment")
     /\ (from \in {"Displayed", "Failed"}) => to = "Idle" /\ tempFile' = NoFile

\* C5 as amended: a review interaction takes only the transitions of the
\* state machine, Displayed and Failed exclude each other, and after either
\* one the temp file is gone and the session is Idle; the uploader keeps the
\* document, so a later run re-enters Ready without a new upload.
C5_StateMachine ==
  [][\A s \in sessions : FollowsStateMachine(s)]_vars

\* C5 as claimed: besides the transitions, after Displayed or Failed nothing
\* is retained (no temp file, no pending document), and Idle is left for
\* Ready only by a new upload.
C5_NoStateRetained ==
  [][\A s \in sessions :
       /\ FollowsStateMachine(s)
       /\ (InteractionState(s) \in {"Displayed", "Failed"}) =>
            tempFile' = NoFile /\ uploader'[s] = NoFile
       /\ (InteractionState(s) = "Idle" /\ InteractionState(s)' = "Ready") =>
            freshUpload[s]]_vars

\* A session is Ready again after a review, with no upload in between.
C5_Witness ==
  \E s \in sessions :
    /\ InteractionState(s) = "Ready"
    /\ pc[s] = "branch"
    /\ wroteTemp[s]
    /\ ~freshUpload[s]

\* C6: with OPENAI_API_KEY absent or empty, main() shows an error and halts:
\* the upload control is not processed, no temp file is written, no reviewer
\* is constructed and no request is issued.
C6_MissingKeyHalts ==
  envKey \in {"unset", "empty"} =>
    /\ tempFile = NoFile
    /\ \A s \in sessions :
         /\ pc[s] \in {"idle", "main"}
         /\ ~wroteTemp[s]
         /\ systemPrompt[s] = <<>>
         /\ reqCount[s] = 0
         /\ ~HasKind(ui[s], "file_uploader")
         /\ ~HasKind(ui[s], "button")
         /\ (ui[s] # <<>> =>
               Has(ui[s], "error", "Please set the OPENAI_API_KEY environment variable."))

C6_Witness ==
  /\ envKey = "empty"
  /\ \E s \in sessions :
       /\ pc[s] = "idle"
       /\ Has(ui[s], "error", "Please set the OPENAI_API_KEY environment variable.")

\* C7: a call of review_resolution issues at most one request, exactly one
\* when extraction and prompt building succeeded, and a request that raises
\* is not retried: the exception reaches the caller.
C7_ExactlyOneRequest ==
  \A s \in sessions :
    /\ reqCount[s] <= 1
    /\ (ReviewReturned(s) /\ userPrompt[s] # <<>>) => reqCount[s] = 1
    /\ (ReviewReturned(s) /\ raisedBy[s] = "create") =>
         reqCount[s] = 1 /\ outcome[s] # "displayed"

\* C8: an exception of the preview's extraction is shown in the preview
\* panel and does not end the run: Analyze is still offered, and invoked on
\* the same file it fails with the same class of error, shown inline, and
\* the temp file is removed.
C8_PreviewErrorNonFatal ==
  \A s \in sessions :
    previewErr[s] # "" =>
      /\ Has(ui[s], "error", "Could not extract text")
      /\ pc[s] # "button" => HasKind(ui[s], "button")
      /\ pc[s] \notin {"prompt", "count", "request", "parse", "render"}
      /\ (pc[s] \in {"finally", "idle"} /\ button[s]) =>
           /\ outcome[s] = "failed"
           /\ raisedBy[s] = "read_document"
           /\ caught[s] = previewErr[s]
           /\ Has(ui[s], "error", "An error occurred")
      /\ (pc[s] = "idle" /\ button[s]) => tempFile = NoFile

C8_Witness ==
  \E s \in sessions :
    /\ previewErr[s] = "PackageNotFoundError"
    /\ pc[s] = "idle"
    /\ button[s]
    /\ caught[s] = "PackageNotFoundError"
    /\ tempFile = NoFile

\* The first place of symbol x in sequence u (0: nowhere).
IndexOf(x, u) ==
  IF \E i \in 1..Len(u) : u[i] = x
  THEN CHOOSE i \in 1..Len(u) : u[i] = x /\ \A j \in 1..(i - 1) : u[j] # x
  ELSE 0

\* u holds text verbatim somewhere after place k, and is `fixed` around it.
HoldsAfter(u, text, k, fixed) ==
  \E j \in (k + 1)..(Len(u) + 1) :
    /\ j + Len(text) - 1 <= Len(u)
    /\ SubSeq(u, j, j + Len(text) - 1) = text
    /\ SubSeq(u, 1, j - 1) \o SubSeq(u, j + Len(text), Len(u)) = fixed

\* The user prompt of a document without text.
EmptyTextPrompt ==
  << "Your task is to analyze a draft resolution for compliance with the template and rules.",
     "<EXAMPLE START>", "ORIGINAL VERSION:-", "ex_original",
     "----------------", "MODIFIED VERSION:-", "ex_modified",
     "----------------", "ORIGINAL VERSION:-", "changes",
     "----------------", "<EXAMPLE END>",
     "Based on the template provided, please analyze the following resolution:",
     "Provide a detailed analysis identifying any violations of the template or rules." >>

\* C9: the user prompt of every request holds the extracted text verbatim
\* after the <EXAMPLE END> marker and is the same fixed text around it; the
\* system prompt of every request is the one constant string.
C9_PromptHoldsTextVerbatim ==
  \A s \in sessions :
    /\ userPrompt[s] # <<>> =>
         /\ IndexOf(ExampleEnd, userPrompt[s]) > 0
         /\ HoldsAfter(userPrompt[s], resolutionText[s],
                       IndexOf(ExampleEnd, userPrompt[s]), EmptyTextPrompt)
    /\ lastRequest[s].issued =>
         /\ lastRequest[s].user = userPrompt[s]
         /\ lastRequest[s].system = GetSystemPrompt
    /\ systemPrompt[s] \in {<<>>, GetSystemPrompt}

C9_Witness ==
  \E s \in sessions :
    /\ lastRequest[s].issued
    /\ resolutionText[s] = <<"a", Newline, ExampleEnd>>
    /\ lastRequest[s].user = userPrompt[s]

\* C10: the token counter never changes control flow: once the prompts are
\* built, the one request made of them is issued whatever count_tokens
\* yields; no request is skipped because of the token counter.
C10_TokenCounterNeverSkipsRequest ==
  \A s \in sessions :
    (userPrompt[s] # <<>> /\ pc[s] \in {"parse", "render", "except", "finally", "idle"}) =>
      /\ raisedBy[s] # "count_tokens"
      /\ lastRequest[s] = ChatRequest(GetSystemPrompt, userPrompt[s])


\* This run's review has called read_document.
ReviewHasRead(s) ==
  /\ button[s]
  /\ \/ pc[s] \in {"prompt", "count", "request", "parse", "render", "except", "finally"}
     \/ ActionFinished(s)

\* What the review's read_document found is what session s uploaded: its
\* text, or the error its bytes raise.
ReadOwnUpload(s) ==
  IF raisedBy[s] = "read_document"
  THEN ReadDocumentRaises(uploader[s])
  ELSE ~ReadDocumentRaises(uploader[s]) /\ resolutionText[s] = ReadDocument(uploader[s])

\* C11: the temp file belongs to the interaction that wrote it only while
\* there is one session: a review finds something else than its own upload
\* only when another session has been running, and with two sessions a
\* review does read the other session's upload.
C11_ExclusiveOnlyInOneSession ==
  \A s \in sessions :
    (ReviewHasRead(s) /\ ~ReadOwnUpload(s)) =>
      \E t \in sessions \ {s} : pc[t] # "idle" \/ ui[t] # <<>>

\* A review of session s has read the bytes session t uploaded.
C11_Witness ==
  \E s \in sessions : \E t \in sessions \ {s} :
    /\ pc[s] = "prompt"
    /\ uploader[s] = DocA
    /\ uploader[t] = DocB
    /\ wroteTemp[t]
    /\ resolutionText[s] = ReadDocument(DocB)
    /\ resolutionText[s] # ReadDocument(uploader[s])

\* A review of session s has found the file removed by the cleanup of
\* session t.
C11_WitnessFileRemoved ==
  \E s \in sessions : \E t \in sessions \ {s} :
    /\ pc[s] = "except"
    /\ raisedBy[s] = "read_document"
    /\ wroteTemp[s]
    /\ ~ReadDocumentRaises(uploader[s])
    /\ ActionFinished(t)
    /\ tempFile = NoFile


\* json.loads has been called in this run.
ParseCalled(s) ==
  \/ pc[s] = "render"
  \/ raisedBy[s] \in {"json.loads", "render"}
  \/ outcome[s] = "displayed"

\* C12: data flows downstream only: a request is issued only in a run in
\* which Analyze was triggered, after the extraction and the prompt building
\* succeeded (none when the extraction raised); JSON is parsed only after
\* the request returned; result sections are drawn only after the parsing
\* succeeded.
C12_DataFlowsDownstream ==
  \A s \in sessions :
    /\ (reqCount[s] > 0 \/ lastRequest[s].issued) =>
         /\ button[s]
         /\ HasKind(ui[s], "button")
         /\ raisedBy[s] \notin {"read_document", "count_tokens"}
         /\ userPrompt[s] # <<>>
         /\ lastRequest[s].user = userPrompt[s]
    /\ raisedBy[s] = "read_document" =>
         reqCount[s] = 0 /\ ~lastRequest[s].issued /\ ~response[s].set
    /\ response[s].set => lastRequest[s].issued
    /\ ParseCalled(s) =>
         response[s].set /\ reqCount[s] = 1 /\ raisedBy[s] # "create"
    /\ (HasKind(ui[s], "header") \/ HasKind(ui[s], "success")
          \/ Has(ui[s], "expander", "Violation at")) =>
         /\ response[s].set
         /\ response[s].json
         /\ results[s] = JsonLoads(response[s])

C12_Witness ==
  \E s \in sessions :
    /\ pc[s] = "idle"
    /\ outcome[s] = "displayed"
    /\ reqCount[s] = 1
    /\ Has(ui[s], "header", "Review Results")
    /\ Has(ui[s], "expander", "Violation at")

\* C13: in a single session every run of main() with a file in the uploader
\* writes that file's bytes to temp_resolution.docx before the preview or
\* the review reads it: the text previewed and the text reviewed are those
\* of the document in the uploader in that run.
C13_ReadsCurrentUpload ==
  \A s \in sessions :
    /\ (pc[s] \in {"branch", "preview", "button", "read"} /\ uploader[s] # NoFile) =>
         wroteTemp[s] /\ tempFile = uploader[s]
    /\ pc[s] \in {"preview", "button", "read"} => uploader[s] # NoFile
    /\ HasKind(ui[s], "text_area") =>
         ~ReadDocumentRaises(uploader[s]) /\ previewText[s] = ReadDocument(uploader[s])
    /\ previewErr[s] # "" => ReadDocumentRaises(uploader[s])
    /\ ReviewHasRead(s) => ReadOwnUpload(s)

\* A second review in the session: the document was uploaded, reviewed, and
\* is previewed and read again in a later run.
C13_Witness ==
  \E s \in sessions :
    /\ pc[s] = "prompt"
    /\ ~freshUpload[s]
    /\ HasKind(ui[s], "text_area")
    /\ uploader[s] = [kind |-> "docx", paras |-> << <<"a">>, <<>> >>]
    /\ previewText[s] = <<"a", Newline>>
    /\ resolutionText[s] = previewText[s]

====
